---- MODULE Spec2Model ----
(***************************************************************************)
(* idpos_visualizer: the warehouse loader (src/ingestion/load_data.py) and *)
(* the synthetic dataset generator (src/data/demo_data_gen.py).            *)
(*                                                                         *)
(* Spec     the loader entrypoint: three sequential load_csv_to_snowflake  *)
(*          calls, each stepped statement by statement, and re-runs of the *)
(*          entrypoint against the same warehouse.                         *)
(* SpecGen  the generator script: household table, product loop,           *)
(*          transaction loop, save.                                        *)
(***************************************************************************)
EXTENDS Integers, Sequences, FiniteSets

VARIABLES
    \* ---- loader (load_data.py) ----
    pc,         \* statement the loader process is at
    call,       \* which of the three entrypoint calls is running (1..3)
    run,        \* how many times the entrypoint has been started
    files,      \* the local CSV files: path -> [exists, rows]
    tables,     \* the warehouse, schema RAW: table -> [rows, loads]
    conns,      \* connections opened by this process, "open" / "closed"
    df,         \* local df of the running call: [read, rows]
    ret,        \* what write_pandas returned: [returned, success, nrows]
    exc,        \* the exception in flight: "none", "connect", "read", "upload"
    out,        \* console output of this process, a sequence of messages
    \* ---- generator (demo_data_gen.py) ----
    gpc,        \* section the generator script is at
    i,          \* loop variable of the product loop and the transaction loop
    demo_df,    \* household table: sequence of rows
    products,   \* product table: sequence of rows
    row,        \* the dict the running iteration appends to transactions
    basket_ids, \* the BASKET_ID column of transactions, in generation order
    saved       \* CSV files written by to_csv

loaderVars == <<pc, call, run, files, tables, conns, df, ret, exc, out>>
genVars == <<gpc, i, demo_df, products, row, basket_ids, saved>>
vars == <<pc, call, run, files, tables, conns, df, ret, exc, out,
          gpc, i, demo_df, products, row, basket_ids, saved>>

(***************************************************************************)
(* Bounds of the model.                                                    *)
(***************************************************************************)
\* Longest CSV file, in rows.
MaxRows == 2
\* How many times the entrypoint is run against the same warehouse.
MaxRuns == 2
\* Households generated (100 in the source, line 10).
NumHouseholds == 2
\* Products generated (50 in the source, line 59).
NumProducts == 2
\* Transactions generated (2000 in the source, line 80); like 2000, the bound
\* leaves the remainder 2 when divided by the basket size 3.
NumTransactions == 5
\* Day offsets drawn, 0..NumDays-1 (365 in the source, line 87): a Friday, a
\* Saturday and a Sunday.
NumDays == 3
\* Points of the base price grid over [1.000, 9.999], both ends included.
PriceGrid == 3

(***************************************************************************)
(*                               LOADER                                    *)
(***************************************************************************)

\* The three (file path, table name) pairs of the entrypoint, in call order.
LOADS ==
    << [file |-> "./data/transaction_data.csv", table |-> "TRANSACTIONS"],
       [file |-> "./data/product.csv",          table |-> "PRODUCTS"],
       [file |-> "./data/hh_demographic.csv",   table |-> "DEMOGRAPHICS"] >>

NumLoads == Len(LOADS)
FilePaths == {LOADS[k].file : k \in 1..NumLoads}
TableNames == {LOADS[k].table : k \in 1..NumLoads}

\* A CSV file of n data rows; rows are numbered, their content plays no part.
RowsOf(n) == [j \in 1..n |-> j]
NoFile == [exists |-> FALSE, rows |-> <<>>]
FileStates == {NoFile} \cup {[exists |-> TRUE, rows |-> RowsOf(n)] : n \in 0..MaxRows}

NoDf == [read |-> FALSE, rows |-> <<>>]
NoRet == [returned |-> FALSE, success |-> FALSE, nrows |-> 0]

StartMsg(f, t) == [msg |-> "start", file |-> f, table |-> t, nrows |-> 0, e |-> "none"]
SuccessMsg(n, t) == [msg |-> "success", file |-> "", table |-> t, nrows |-> n, e |-> "none"]
ErrorMsg(e) == [msg |-> "error", file |-> "", table |-> "", nrows |-> 0, e |-> e]

\* The statements that sit inside the try block (lines 34-50).
InTry(op) == op \in {"read", "upload"}

\* Variant for C1: an except clause that handles only what the read raises.
HandlesOnlyReadErrors(op) == op = "read"
\* except Exception (line 51): every exception raised inside the try is handled.
Handles(op) == TRUE

\* Variant for C10: a read error that is swallowed, the call going on to upload.
ReadErrorSwallowed(op) ==
    IF op = "read" THEN "upload"
    ELSE IF InTry(op) THEN (IF Handles(op) THEN "except" ELSE "finally") ELSE "crashed"
\* Where control goes when statement op raises: into the handler when the try
\* covers it and the except clause handles it, through finally when only the
\* try covers it, and otherwise out of the function and out of the entrypoint,
\* which has no handler of its own (lines 57-60).
RaiseTarget(op) ==
    IF InTry(op) THEN (IF Handles(op) THEN "except" ELSE "finally") ELSE "crashed"

\* Variant for C4: an upload without overwrite, which appends.
AppendRows(old, new) == old \o new
\* write_pandas(..., overwrite=True) (line 46): the table holds the frame's rows
\* and nothing else.
StoreRows(old, new) == new

\* Variant for C3: conn.close() as the last statement of the try body.
CloseAtEndOfTry(cs, completed) ==
    IF completed THEN [cs EXCEPT ![Len(cs)] = "closed"] ELSE cs
\* finally: conn.close() (lines 53-54): closes the call's connection whether
\* the try body ran to its end (completed) or an exception cut it short.
FinallyClose(cs, completed) == [cs EXCEPT ![Len(cs)] = "closed"]

\* No dict is in the making.
NoRow ==
    [HOUSEHOLD_KEY |-> 0, BASKET_ID |-> [billions |-> 0, units |-> 0],
     DAY |-> <<0, 0, 0>>, PRODUCT_ID |-> 0,
     QUANTITY |-> 0, SALES_VALUE |-> 0, WEEK_NO |-> 0]

InitLoader ==
    /\ pc = "connect"
    /\ call = 1
    /\ run = 1
    /\ files \in [FilePaths -> FileStates]
    /\ tables = [t \in TableNames |-> [rows |-> <<>>, loads |-> 0]]
    /\ conns = <<>>
    /\ df = NoDf
    /\ ret = NoRet
    /\ exc = "none"
    /\ out = <<>>

IdleGen ==
    /\ gpc = "idle"
    /\ i = 0
    /\ demo_df = <<>>
    /\ products = <<>>
    /\ row = NoRow
    /\ basket_ids = <<>>
    /\ saved = {}

Init == InitLoader /\ IdleGen

\* conn = get_snowflake_connection() (line 33), then the print of line 35.
\* The connection attempt sits before the try: when it raises, nothing of the
\* function handles it.
Connect ==
    /\ pc = "connect"
    /\ \/ /\ conns' = Append(conns, "open")
          /\ out' = Append(out, StartMsg(LOADS[call].file, LOADS[call].table))
          /\ pc' = "read"
          /\ exc' = exc
       \/ /\ exc' = "connect"
          /\ pc' = RaiseTarget("connect")
          /\ UNCHANGED <<conns, out>>
    /\ UNCHANGED <<call, run, files, tables, df, ret>>
    /\ UNCHANGED genVars

\* df = pd.read_csv(file_path) (line 38).
ReadCsv ==
    /\ pc = "read"
    /\ IF files[LOADS[call].file].exists
       THEN /\ df' = [read |-> TRUE, rows |-> files[LOADS[call].file].rows]
            /\ pc' = "upload"
            /\ exc' = exc
       ELSE /\ exc' = "read"
            /\ pc' = RaiseTarget("read")
            /\ df' = df
    /\ UNCHANGED <<call, run, files, tables, conns, ret, out>>
    /\ UNCHANGED genVars

\* success, nchunks, nrows, _ = write_pandas(...) (lines 41-47): the upload
\* succeeds, returns without success, or raises.
WritePandas ==
    /\ pc = "upload"
    /\ \/ /\ tables' = [tables EXCEPT ![LOADS[call].table] =
                          [rows |-> StoreRows(@.rows, df.rows), loads |-> @.loads + 1]]
          /\ ret' = [returned |-> TRUE, success |-> TRUE, nrows |-> Len(df.rows)]
          /\ pc' = "report"
          /\ exc' = exc
       \/ /\ ret' = [returned |-> TRUE, success |-> FALSE, nrows |-> 0]
          /\ pc' = "report"
          /\ UNCHANGED <<tables, exc>>
       \/ /\ exc' = "upload"
          /\ pc' = RaiseTarget("upload")
          /\ UNCHANGED <<tables, ret>>
    /\ UNCHANGED <<call, run, files, conns, df, out>>
    /\ UNCHANGED genVars

\* if success: print(...) (lines 49-50).
Report ==
    /\ pc = "report"
    /\ out' = IF ret.success
              THEN Append(out, SuccessMsg(ret.nrows, LOADS[call].table))
              ELSE out
    /\ pc' = "finally"
    /\ UNCHANGED <<call, run, files, tables, conns, df, ret, exc>>
    /\ UNCHANGED genVars

\* except Exception as e: print(...) (lines 51-52).
Except ==
    /\ pc = "except"
    /\ out' = Append(out, ErrorMsg(exc))
    /\ exc' = "none"
    /\ pc' = "finally"
    /\ UNCHANGED <<call, run, files, tables, conns, df, ret>>
    /\ UNCHANGED genVars

\* finally: conn.close() (lines 53-54), then the return to the entrypoint, which
\* makes its next call (lines 58-60) or ends; an exception still in flight goes
\* on to end the process.
Finally ==
    /\ pc = "finally"
    /\ conns' = FinallyClose(conns, ret.returned)
    /\ IF exc # "none"
       THEN /\ pc' = "crashed"
            /\ UNCHANGED <<call, df, ret>>
       ELSE IF call < NumLoads
       THEN /\ call' = call + 1
            /\ pc' = "connect"
            /\ df' = NoDf
            /\ ret' = NoRet
       ELSE /\ pc' = "done"
            /\ UNCHANGED <<call, df, ret>>
    /\ UNCHANGED <<run, files, tables, exc, out>>
    /\ UNCHANGED genVars

\* The entrypoint is started again (lines 57-60): a new process, with a new
\* console and no connection, against the warehouse the earlier run left.
Rerun ==
    /\ pc \in {"done", "crashed"}
    /\ run < MaxRuns
    /\ run' = run + 1
    /\ call' = 1
    /\ pc' = "connect"
    /\ conns' = <<>>
    /\ df' = NoDf
    /\ ret' = NoRet
    /\ exc' = "none"
    /\ out' = <<>>
    /\ UNCHANGED <<files, tables>>
    /\ UNCHANGED genVars

Next == Connect \/ ReadCsv \/ WritePandas \/ Report \/ Except \/ Finally \/ Rerun

Spec == Init /\ [][Next]_vars

(***************************************************************************)
(* What the console output says about each call of the running process.    *)
(***************************************************************************)
Terminal == {"done", "crashed"}

\* Call k opened its connection: its start message was printed.
Started(k) == \E j \in DOMAIN out : out[j] = StartMsg(LOADS[k].file, LOADS[k].table)
StartIdx(k) == CHOOSE j \in DOMAIN out : out[j] = StartMsg(LOADS[k].file, LOADS[k].table)
SegmentEnd(k) == IF k < NumLoads /\ Started(k + 1) THEN StartIdx(k + 1) - 1 ELSE Len(out)
\* The outcome messages (success or error) call k printed.
Outcomes(k) ==
    IF Started(k)
    THEN {j \in (StartIdx(k) + 1)..SegmentEnd(k) : out[j].msg \in {"success", "error"}}
    ELSE {}
\* Call k opened its connection and has ended.
Ended(k) == Started(k) /\ (call > k \/ pc \in Terminal)
UploadRaised(k) == \E j \in Outcomes(k) : out[j] = ErrorMsg("upload")
ReadRaised(k) == \E j \in Outcomes(k) : out[j] = ErrorMsg("read")
Succeeded(k) == \E j \in Outcomes(k) : out[j].msg = "success"
OpenConns == {c \in DOMAIN conns : conns[c] = "open"}

\* C1: when the upload of the second call raises, the exception is handled
\* inside that call, the first call has already ended, the run is not aborted
\* by the second call, the third call is started, and once the third call has
\* its connection it runs to its end and the run finishes.
C1_UploadFailureIsolated ==
    /\ (call = 2 /\ exc = "upload") => (pc = "except" /\ Ended(1))
    /\ UploadRaised(2) =>
          /\ Ended(1)
          /\ ~(call = 2 /\ pc = "crashed")
          /\ (pc \in Terminal => call = 3)
          /\ (Started(3) /\ pc \in Terminal => pc = "done" /\ Ended(3))

\* C1 witness: a finished run whose second upload raised and whose third
\* call loaded its table.
C1_Witness ==
    /\ pc = "done"
    /\ UploadRaised(2)
    /\ Ended(1)
    /\ Succeeded(3)

\* C2 (as claimed): every load-time failure, a connection error included, is
\* caught inside the call that raised it, so no exception is ever in flight
\* outside the handler and the process never ends on an uncaught exception.
C2_EveryFailureCaught ==
    /\ pc # "crashed"
    /\ (exc # "none" => pc = "except")

\* C3: at most one connection is open at any moment, it is the connection of
\* the running call, and none is open when a call is about to connect or the
\* process has ended: every call has closed its connection before returning.
C3_ConnectionScoped ==
    /\ Cardinality(OpenConns) <= 1
    /\ OpenConns \subseteq {Len(conns)}
    /\ (pc \in {"connect"} \cup Terminal => OpenConns = {})

\* C3 witness: a finished run of three calls, one ended by a read error, one by
\* an upload error, one successful, with all three connections closed.
C3_Witness ==
    /\ pc = "done"
    /\ Len(conns) = 3
    /\ OpenConns = {}
    /\ \E a, b, c \in 1..NumLoads : ReadRaised(a) /\ UploadRaised(b) /\ Succeeded(c)

\* C4: a table that has been loaded, however many times, holds exactly the
\* rows of its file: its row count is the file's, not a multiple of it; and
\* the row count a successful upload reports is the file's.
C4_OverwriteIdempotent ==
    /\ \A k \in 1..NumLoads :
          tables[LOADS[k].table].loads >= 1 =>
              tables[LOADS[k].table].rows = files[LOADS[k].file].rows
    /\ (ret.success => ret.nrows = Len(files[LOADS[call].file].rows))

\* C4 witness: the same non-empty file loaded twice in succession.
C4_Witness ==
    \E k \in 1..NumLoads :
        /\ tables[LOADS[k].table].loads = 2
        /\ Len(files[LOADS[k].file].rows) >= 1
        /\ Len(tables[LOADS[k].table].rows) = Len(files[LOADS[k].file].rows)

\* C5 (as claimed): every call that opened its connection and has ended
\* printed exactly one outcome message, success or error.
C5_ExactlyOneOutcome ==
    \A k \in 1..NumLoads : Ended(k) => Cardinality(Outcomes(k)) = 1

\* C10: a warehouse table changes only in the upload step of a call whose
\* read succeeded; a read that raises is never followed by the upload and
\* leaves every table as it was.
C10_ReadFailureLeavesTable ==
    [][ /\ (tables' # tables => (pc = "upload" /\ df.read))
        /\ ((pc = "read" /\ ~files[LOADS[call].file].exists) =>
                (pc' # "upload" /\ tables' = tables)) ]_vars

\* C10 witness: a finished run whose third file was missing; its table was
\* never loaded while the other two were.
C10_Witness ==
    /\ pc = "done"
    /\ ReadRaised(3)
    /\ tables[LOADS[3].table].loads = 0
    /\ tables[LOADS[1].table].loads = 1
    /\ tables[LOADS[2].table].loads = 1

(***************************************************************************)
(*                              GENERATOR                                  *)
(***************************************************************************)

income_groups ==
    << "Under 15K", "15-24K", "25-34K", "35-49K", "50-74K", "75-99K",
       "100-124K", "150-174K", "250K+" >>
kid_categories == << "None/Unknown", "1", "2", "3+" >>

\* The categories the household columns are drawn from in the model: one
\* income bracket without a marker and the two with one; no kids and kids.
IncomeDraws == {income_groups[5], income_groups[7], income_groups[9]}
KidDraws == {kid_categories[1], kid_categories[3]}

\* "100" in INCOME_DESC or "250" in INCOME_DESC (line 96): of the nine
\* brackets, the two that contain one of the substrings.
HighIncome(desc) == desc \in {"100-124K", "250K+"}

\* Base prices drawn, in thousandths: np.random.uniform(1.0, 10.0) (line 93).
PricePoints == {1000 + ((8999 * j) \div (PriceGrid - 1)) : j \in 0..(PriceGrid - 1)}

\* Days of the months of 2021.
MonthDays == <<31, 28, 31, 30, 31, 30, 31, 31, 30, 31, 30, 31>>
RECURSIVE DateFrom(_, _)
DateFrom(m, d) == IF d < MonthDays[m] THEN <<2021, m, d + 1>> ELSE DateFrom(m + 1, d - MonthDays[m])
\* (start_date + timedelta(days=days_offset)).strftime("%Y-%m-%d") (lines 88, 115).
DayString(days_offset) == DateFrom(1, days_offset)
\* trans_date.weekday() >= 5 (line 89); 2021-01-01 is a Friday, weekday 4.
IsWeekend(days_offset) == ((4 + days_offset) % 7) >= 5

\* n / d rounded to the nearest integer, ties to the even one, as round() does.
RoundHalfEven(n, d) ==
    LET q == n \div d
        r == n % d
    IN  IF 2 * r < d THEN q
        ELSE IF 2 * r > d THEN q + 1
        ELSE IF q % 2 = 0 THEN q ELSE q + 1

\* Variant for C8: a high income multiplier of 2.
IncomeDoublesPrice(base_price, desc) ==
    IF HighIncome(desc) THEN 4 * base_price ELSE 2 * base_price
\* base_price *= 1.5 for a high income bracket (lines 96-97). base_price is in
\* thousandths; the result is in halves of a thousandth.
ApplyIncome(base_price, desc) ==
    IF HighIncome(desc) THEN 3 * base_price ELSE 2 * base_price

\* qty (lines 100-107): the base draw, the kid bonus, the weekend bonus.
Quantity(q1, kid_desc, q2, weekend, bump) ==
    q1 + (IF kid_desc # "None/Unknown" THEN q2 ELSE 0)
       + (IF weekend /\ bump THEN 1 ELSE 0)

\* round(base_price * qty, 2) (line 109), in cents; price2 is in halves of a
\* thousandth, 2000 to the unit, so 20 to the cent.
SalesValue(price2, qty) == RoundHalfEven(price2 * qty, 20)

\* Variant for C7: baskets of 2.
BasketIdOfTwo(idx) == [billions |-> 30, units |-> idx \div 2]
\* 30000000000 + i // 3 (line 114), as billions and units.
BasketId(idx) == [billions |-> 30, units |-> idx \div 3]

\* Variant for C6: the 0-based position stored in place of the key.
RowKeyIsPosition(hh, hh_idx) == hh_idx
\* hh["household_key"] of hh = demo_df.iloc[hh_idx] (lines 83, 113).
RowHouseholdKey(hh, hh_idx) == hh.household_key

IdleLoader ==
    /\ pc = "idle"
    /\ call = 0
    /\ run = 0
    /\ files = [f \in FilePaths |-> NoFile]
    /\ tables = [t \in TableNames |-> [rows |-> <<>>, loads |-> 0]]
    /\ conns = <<>>
    /\ df = NoDf
    /\ ret = NoRet
    /\ exc = "none"
    /\ out = <<>>

InitGen ==
    /\ IdleLoader
    /\ gpc = "households"
    /\ i = 0
    /\ demo_df = <<>>
    /\ products = <<>>
    /\ row = NoRow
    /\ basket_ids = <<>>
    /\ saved = {}

\* demo_df = pd.DataFrame({...}) (lines 32-45): keys 1..N in order; of the
\* sampled columns, the two the transaction loop reads.
HouseholdsStep ==
    /\ gpc = "households"
    /\ \E inc \in [1..NumHouseholds -> IncomeDraws], kid \in [1..NumHouseholds -> KidDraws] :
          demo_df' = [h \in 1..NumHouseholds |->
                        [household_key |-> h, INCOME_DESC |-> inc[h],
                         KID_CATEGORY_DESC |-> kid[h]]]
    /\ gpc' = "products"
    /\ i' = 1
    /\ UNCHANGED <<products, row, basket_ids, saved>>
    /\ UNCHANGED loaderVars

\* for i in range(1, 51): products.append({...}) (lines 59-72): the column the
\* transaction loop reads.
ProductStep ==
    /\ gpc = "products"
    /\ products' = Append(products, [PRODUCT_ID |-> 1000 + i])
    /\ IF i < NumProducts
       THEN /\ i' = i + 1
            /\ gpc' = gpc
       ELSE /\ i' = 0
            /\ gpc' = "transactions"
    /\ UNCHANGED <<demo_df, row, basket_ids, saved>>
    /\ UNCHANGED loaderVars

\* The draws and the arithmetic of one iteration of for i in range(2000)
\* (lines 80-109), up to the dict that line 111 is about to append. The kid
\* bonus is drawn only for a household with kids and the weekend gate only on
\* a weekend. STORE_ID, RETAIL_DISC and TRANS_TIME, which nothing reads back,
\* are left out of the dict.
TransactionStep ==
    /\ gpc = "transactions"
    /\ \E hh_idx \in 0..(Len(demo_df) - 1), prod_pos \in 1..Len(products),
          days_offset \in 0..(NumDays - 1), base_price \in PricePoints, q1 \in 1..2 :
          LET hh == demo_df[hh_idx + 1]
              prod == products[prod_pos]
              weekend == IsWeekend(days_offset)
          IN  \E q2 \in (IF hh.KID_CATEGORY_DESC # "None/Unknown" THEN 1..2 ELSE {0}),
                 bump \in (IF weekend THEN BOOLEAN ELSE {FALSE}) :
                 LET qty == Quantity(q1, hh.KID_CATEGORY_DESC, q2, weekend, bump)
                 IN  row' = [HOUSEHOLD_KEY |-> RowHouseholdKey(hh, hh_idx),
                             BASKET_ID |-> BasketId(i),
                             DAY |-> DayString(days_offset),
                             PRODUCT_ID |-> prod.PRODUCT_ID,
                             QUANTITY |-> qty,
                             SALES_VALUE |->
                                 SalesValue(ApplyIncome(base_price, hh.INCOME_DESC), qty),
                             WEEK_NO |-> (days_offset \div 7) + 1]
    /\ gpc' = "append"
    /\ UNCHANGED <<i, demo_df, products, basket_ids, saved>>
    /\ UNCHANGED loaderVars

\* transactions.append({...}) (lines 111-124) and the loop's next index; the
\* dict is kept through its BASKET_ID.
AppendStep ==
    /\ gpc = "append"
    /\ basket_ids' = Append(basket_ids, row.BASKET_ID)
    /\ row' = NoRow
    /\ IF i + 1 < NumTransactions
       THEN /\ i' = i + 1
            /\ gpc' = "transactions"
       ELSE /\ i' = i
            /\ gpc' = "save"
    /\ UNCHANGED <<demo_df, products, saved>>
    /\ UNCHANGED loaderVars

\* The three to_csv calls (lines 129-131).
SaveStep ==
    /\ gpc = "save"
    /\ saved' = {"hh_demographic.csv", "product.csv", "transaction_data.csv"}
    /\ gpc' = "done"
    /\ UNCHANGED <<i, demo_df, products, row, basket_ids>>
    /\ UNCHANGED loaderVars

NextGen == HouseholdsStep \/ ProductStep \/ TransactionStep \/ AppendStep \/ SaveStep

SpecGen == InitGen /\ [][NextGen]_vars

\* row is the dict of a transaction, about to be appended.
RowAppended == gpc = "append"
Finished == gpc \in {"save", "done"}
BasketValues == {basket_ids[j] : j \in DOMAIN basket_ids}
Carriers(b) == {j \in DOMAIN basket_ids : basket_ids[j] = b}
Contiguous(S) == \A a, c \in S : \A m \in a..c : m \in S

\* C6: the HOUSEHOLD_KEY of every appended transaction is the household_key of
\* a row of the household table, and its PRODUCT_ID is the PRODUCT_ID of a row
\* of the product table; the keys are 1..N and 1001..1000+N.
C6_ReferencesExist ==
    RowAppended =>
        /\ \E h \in DOMAIN demo_df : demo_df[h].household_key = row.HOUSEHOLD_KEY
        /\ \E p \in DOMAIN products : products[p].PRODUCT_ID = row.PRODUCT_ID
        /\ row.HOUSEHOLD_KEY \in 1..NumHouseholds
        /\ row.PRODUCT_ID \in 1001..(1000 + NumProducts)

\* C6 witness: a transaction of the last household and the last product.
C6_Witness ==
    /\ RowAppended
    /\ row.HOUSEHOLD_KEY = NumHouseholds
    /\ row.PRODUCT_ID = 1000 + NumProducts

\* C7 (as claimed): in the finished table every BASKET_ID is carried by
\* exactly 3 transactions, at contiguous indices.
C7_EveryBasketHasThree ==
    Finished =>
        \A b \in BasketValues : Cardinality(Carriers(b)) = 3 /\ Contiguous(Carriers(b))

\* C7 (amended): every BASKET_ID is carried by transactions at contiguous
\* indices, never more than 3; in the finished table every BASKET_ID but the
\* last is carried by exactly 3, and the last by the transactions that remain:
\* N - 3 * ((N - 1) div 3) of them, which is 2 for N = 2000.
C7_BasketsOfThreeButLast ==
    /\ \A b \in BasketValues : Cardinality(Carriers(b)) <= 3 /\ Contiguous(Carriers(b))
    /\ Finished =>
          /\ Len(basket_ids) = NumTransactions
          /\ \A b \in BasketValues :
                Cardinality(Carriers(b)) =
                    IF b = BasketId(NumTransactions - 1)
                    THEN NumTransactions - 3 * ((NumTransactions - 1) \div 3)
                    ELSE 3

\* C7 witness: the finished table holds a basket of 3 and ends with a basket
\* of 2.
C7_Witness ==
    /\ Finished
    /\ Cardinality(Carriers(BasketId(0))) = 3
    /\ Cardinality(Carriers(BasketId(NumTransactions - 1))) = 2

\* C8: QUANTITY is a positive integer and SALES_VALUE / QUANTITY lies in
\* [1.0, 15.0]: in cents, 100 * QUANTITY <= SALES_VALUE <= 1500 * QUANTITY.
C8_UnitPriceInRange ==
    RowAppended =>
        /\ row.QUANTITY \in Nat \ {0}
        /\ 100 * row.QUANTITY <= row.SALES_VALUE
        /\ row.SALES_VALUE <= 1500 * row.QUANTITY

\* C8 witness: a transaction of 5 units (base 2, kid bonus 2, weekend bonus)
\* at a unit price above 10.0, which only the income multiplier gives.
C8_Witness ==
    /\ RowAppended
    /\ row.QUANTITY = 5
    /\ row.SALES_VALUE > 1000 * row.QUANTITY

====
